---- MODULE Spec2Model ----
(***************************************************************************)
(* A model of the EigenTrust server: the attestation ledger and the proof  *)
(* cache of server/src/manager/mod.rs (Manager), and the request and       *)
(* epoch handlers of protocol/src/main.rs that drive a Manager behind an   *)
(* Arc<Mutex<Manager>>.                                                     *)
(*                                                                         *)
(* main.rs names the manager's operations add_signature, get_signature,    *)
(* calculate_initial_ivps, calculate_ivps and get_op_jis; the Manager of   *)
(* the sources names them add_attestation, get_attestation and             *)
(* calculate_proofs / get_proof.  The handlers are modelled over the       *)
(* Manager of the sources: a convergence run is calculate_proofs, cut at   *)
(* the call boundaries of handle_epoch_convergence (the gathering of the   *)
(* attestations, then NUM_ITER rounds, the last of which caches the        *)
(* proof).  The body of POST /signature is converted as                    *)
(* protocol/src/manager/attestation.rs converts an AttestationData.        *)
(*                                                                         *)
(* The simulated network of src/network.rs (Network) is modelled apart,    *)
(* over peers whose heartbeat is the trust-weighted sum of the scores of   *)
(* the peers it is given.                                                  *)
(***************************************************************************)
EXTENDS Integers, Sequences, FiniteSets, TLC

(***************************************************************************)
(* Program constants.                                                      *)
(***************************************************************************)
NUM_ITER == 10
NUM_NEIGHBOURS == 5
INITIAL_SCORE == 1000
SCALE == 1000

\* The scalar field Fr, narrowed to a prime that keeps products in range.
FieldModulus == 10007

(***************************************************************************)
(* Bounds of the model.                                                    *)
(***************************************************************************)
\* Public keys that are not in the fixed set.
NumOutsiders == 1
\* Participants of the fixed set that submit attestations of their own.
NumSubmitters == 2
\* Epochs are 0 .. MaxEpoch.
MaxEpoch == 1

Epochs == 0 .. MaxEpoch

\* Connections served at a time.
MaxConns == 1

Conns == 1 .. MaxConns

(***************************************************************************)
(* Identities.  A public key is a curve point; here pk k is the k-th key.  *)
(* FIXED_SET lists the participants' key pairs: participant i holds secret *)
(* key i and public key i.                                                 *)
(***************************************************************************)
FIXED_SET == [i \in 1 .. NUM_NEIGHBOURS |-> i]
Keys == 1 .. (NUM_NEIGHBOURS + NumOutsiders)
Outsiders == Keys \ (1 .. NUM_NEIGHBOURS)

Range(f) == {f[x] : x \in DOMAIN f}

\* PoseidonNativeHasher::new([pk.x, pk.y, 0, 0, 0]).permute()[0]: a scalar
\* per key, distinct keys giving distinct scalars.
PkHash(pk) == (7 * pk + 100) % FieldModulus

\* The hashes of the participants' public keys, in the order of FIXED_SET.
PUBLIC_KEYS == [i \in 1 .. NUM_NEIGHBOURS |-> PkHash(FIXED_SET[i])]

(***************************************************************************)
(* Signatures.  calculate_message_hash is a function of the ordered        *)
(* neighbours and scores; a signature made with the secret key of `signer` *)
(* over message `msg` verifies against that key and that message only.     *)
(***************************************************************************)
MessageHash(neighbours, scores) == <<neighbours, scores>>

Sign(sk, pk, msg) == [signer |-> sk, msg |-> msg]

VerifySig(sig, pk, msg) == sig.signer = pk /\ sig.msg = msg

NewAttestation(sig, pk, neighbours, scores) ==
    [sig |-> sig, pk |-> pk, neighbours |-> neighbours, scores |-> scores]

(***************************************************************************)
(* The wire form of an attestation (AttestationData).  A scalar travels as *)
(* 32 bytes, which hold a number: `val` when the number is below the       *)
(* modulus of the field, and otherwise (`over`) a number the field does    *)
(* not have, for which Scalar::from_bytes gives None (<<>>).  A public key *)
(* travels as its two coordinates; key k is the point (k, k), and          *)
(* PublicKey::default() is key 0.                                          *)
(***************************************************************************)
ToBytes(x) == [val |-> x, over |-> FALSE]

FromBytes(b) == IF b.over THEN <<>> ELSE <<b.val>>

\* The same bytes with a bit set above the modulus.
Overflown(b) == [val |-> b.val, over |-> TRUE]

PkToRaw(pk) == <<pk, pk>>

PkFromRaw(raw) == raw[1]

DefaultPublicKey == 0

\* The scalars big_r.x, big_r.y and s of a signature, and Signature::new
\* over three scalars: an s that does not belong to big_r gives a signature
\* that verifies for no key.
SigS(sig) == <<sig.signer, sig.msg>>

SignatureNew(r_x, r_y, s) ==
    IF s = <<r_x, r_y>>
    THEN [signer |-> r_x, msg |-> r_y]
    ELSE [signer |-> DefaultPublicKey, msg |-> r_y]

\* impl From<Attestation> for AttestationData
DataFromAttestation(att) ==
    [ sig_r_x |-> ToBytes(att.sig.signer),
      sig_r_y |-> ToBytes(att.sig.msg),
      sig_s |-> ToBytes(SigS(att.sig)),
      pk |-> PkToRaw(att.pk),
      neighbours |-> [i \in 1 .. Len(att.neighbours) |-> PkToRaw(att.neighbours[i])],
      scores |-> [i \in 1 .. Len(att.scores) |-> ToBytes(att.scores[i])] ]

\* impl From<AttestationData> for Attestation: one of the unwraps of
\* Scalar::from_bytes meets None.  Only the first NUM_NEIGHBOURS scores are
\* read.
FromDataPanics(data) ==
    \/ FromBytes(data.sig_r_x) = <<>>
    \/ FromBytes(data.sig_r_y) = <<>>
    \/ FromBytes(data.sig_s) = <<>>
    \/ \E i \in 1 .. Len(data.scores) :
           i <= NUM_NEIGHBOURS /\ FromBytes(data.scores[i]) = <<>>

\* The lists are cut at NUM_NEIGHBOURS entries and filled up to
\* NUM_NEIGHBOURS with the default key and with zero.
AttestationFromData(data) ==
    NewAttestation(
        SignatureNew(FromBytes(data.sig_r_x)[1], FromBytes(data.sig_r_y)[1],
                     FromBytes(data.sig_s)[1]),
        PkFromRaw(data.pk),
        [i \in 1 .. NUM_NEIGHBOURS |->
            IF i <= Len(data.neighbours) THEN PkFromRaw(data.neighbours[i])
            ELSE DefaultPublicKey],
        [i \in 1 .. NUM_NEIGHBOURS |->
            IF i <= Len(data.scores) THEN FromBytes(data.scores[i])[1] ELSE 0])

(***************************************************************************)
(* Manager::add_attestation, step by step.                                 *)
(***************************************************************************)
NeighbourHashes(att) ==
    [i \in 1 .. Len(att.neighbours) |-> PkHash(att.neighbours[i])]

\* group.as_ref() != &pk_hashes  =>  InvalidAttestation
NeighboursMatchGroupLengthOnly(att) ==
    Len(NeighbourHashes(att)) = Len(PUBLIC_KEYS)

NeighboursMatchGroup(att) == PUBLIC_KEYS = NeighbourHashes(att)

\* !group.contains(&res)  =>  InvalidAttestation
SignerInGroupUnchecked(att) == TRUE

SignerInGroup(att) == PkHash(att.pk) \in Range(PUBLIC_KEYS)

\* !verify_sig(&att.sig, &att.pk, message_hash[0])  =>  InvalidAttestation
SignatureVerifiesUnchecked(att) == TRUE

SignatureVerifies(att) ==
    VerifySig(att.sig, att.pk, MessageHash(att.neighbours, att.scores))

AddAttestationResult(att) ==
    IF ~NeighboursMatchGroup(att) THEN "InvalidAttestation"
    ELSE IF ~SignerInGroup(att) THEN "InvalidAttestation"
    ELSE IF ~SignatureVerifies(att) THEN "InvalidAttestation"
    ELSE "Ok"

\* HashMap::insert, the other entries lost
MapInsertAlone(map, k, v) == [x \in {k} |-> v]

\* HashMap::insert
MapInsert(map, k, v) ==
    [x \in (DOMAIN map) \cup {k} |-> IF x = k THEN v ELSE map[x]]

\* self.attestations.insert(res, att), a merge of the scores instead
InsertAttestationMerging(atts, att) ==
    LET h == PkHash(att.pk)
    IN IF h \in DOMAIN atts
       THEN MapInsert(atts, h, [atts[h] EXCEPT !.sig = att.sig])
       ELSE MapInsert(atts, h, att)

InsertAttestation(atts, att) == MapInsert(atts, PkHash(att.pk), att)

(***************************************************************************)
(* Manager::generate_initial_attestations.                                 *)
(***************************************************************************)
InitialScores ==
    [i \in 1 .. NUM_NEIGHBOURS |-> INITIAL_SCORE \div NUM_NEIGHBOURS]

\* sign(&sk, &pk, msg) with the key pair of the first participant
InitialAttestationSignedByFirst(i) ==
    NewAttestation(
        Sign(FIXED_SET[1], FIXED_SET[1], MessageHash(FIXED_SET, InitialScores)),
        FIXED_SET[i], FIXED_SET, InitialScores)

InitialAttestation(i) ==
    NewAttestation(
        Sign(FIXED_SET[i], FIXED_SET[i], MessageHash(FIXED_SET, InitialScores)),
        FIXED_SET[i], FIXED_SET, InitialScores)

RECURSIVE InsertInitial(_, _)
InsertInitial(atts, i) ==
    IF i > NUM_NEIGHBOURS THEN atts
    ELSE InsertInitial(
             MapInsert(atts, PkHash(FIXED_SET[i]), InitialAttestation(i)), i + 1)

GenerateInitialAttestations(atts) == InsertInitial(atts, 1)

(***************************************************************************)
(* Manager::calculate_proofs.                                              *)
(***************************************************************************)
\* self.attestations.get(&pk_hash).unwrap() panics for some participant
MissingAttestation(atts) ==
    \E i \in 1 .. NUM_NEIGHBOURS : PkHash(FIXED_SET[i]) \notin DOMAIN atts

GatherOps(atts) ==
    [i \in 1 .. NUM_NEIGHBOURS |-> atts[PkHash(FIXED_SET[i])].scores]

\* vec![Scalar::from_u128(INITIAL_SCORE); NUM_NEIGHBOURS], with the share of
\* the initial attestations instead
InitScoreShare == [i \in 1 .. NUM_NEIGHBOURS |-> INITIAL_SCORE \div NUM_NEIGHBOURS]

InitScore == [i \in 1 .. NUM_NEIGHBOURS |-> INITIAL_SCORE]

FMul(a, b) == (a * b) % FieldModulus
FAdd(a, b) == (a + b) % FieldModulus

ScaleInv == CHOOSE x \in 1 .. (FieldModulus - 1) : FMul(x, SCALE) = 1

RECURSIVE ColumnSum(_, _, _, _)
ColumnSum(s, ops, i, j) ==
    IF j > NUM_NEIGHBOURS THEN 0
    ELSE FAdd(FMul(ops[j][i], s[j]), ColumnSum(s, ops, i, j + 1))

\* One round: new_s[i] is the sum over j of ops[j][i] * s[j], scaled down.
RECURSIVE NewScores(_, _, _)
NewScores(s, ops, i) ==
    IF i > NUM_NEIGHBOURS THEN <<>>
    ELSE <<FMul(ColumnSum(s, ops, i, 1), ScaleInv)>> \o NewScores(s, ops, i + 1)

NativeRound(s, ops) == NewScores(s, ops, 1)

RECURSIVE NativeRounds(_, _, _)
NativeRounds(s, ops, k) ==
    IF k = 0 THEN s ELSE NativeRounds(NativeRound(s, ops), ops, k - 1)

Native(s, ops) == NativeRounds(s, ops, NUM_ITER)

\* gen_proof: the certificate of the public inputs.
GenProof(pub_ins) == <<"proof", pub_ins>>

MakeProof(pub_ins) == [pub_ins |-> pub_ins, proof |-> GenProof(pub_ins)]

ProofOf(atts) == MakeProof(Native(InitScore, GatherOps(atts)))

\* self.cached_proofs.insert(epoch, proof), under another epoch's key
InsertProofShifted(proofs, epoch, proof) ==
    MapInsert(proofs, (epoch + 1) % (MaxEpoch + 1), proof)

InsertProof(proofs, epoch, proof) == MapInsert(proofs, epoch, proof)

(***************************************************************************)
(* Manager::get_last_proof: the greatest key of cached_proofs, found by a  *)
(* pass over the keys in the map's order.  <<>> is None, <<e>> is Some(e). *)
(***************************************************************************)
RECURSIVE LastEpochFold(_, _)
LastEpochFold(keys, epoch) ==
    IF keys = {} THEN epoch
    ELSE LET curr_epoch == CHOOSE k \in keys : TRUE
             next == IF epoch = <<>> THEN <<curr_epoch>>
                     ELSE IF curr_epoch > epoch[1] THEN <<curr_epoch>>
                     ELSE epoch
         IN LastEpochFold(keys \ {curr_epoch}, next)

LastEpoch(proofs) == LastEpochFold(DOMAIN proofs, <<>>)

(***************************************************************************)
(* The inputs of the calls.                                                *)
(***************************************************************************)
Submitters == 1 .. NumSubmitters

\* The fixed set in order; with its first two members exchanged; with an
\* outsider in the last place; one member short.
SwappedNeighbours ==
    [i \in 1 .. NUM_NEIGHBOURS |->
        IF i = 1 THEN FIXED_SET[2] ELSE IF i = 2 THEN FIXED_SET[1] ELSE FIXED_SET[i]]

OutsiderNeighbours ==
    [i \in 1 .. NUM_NEIGHBOURS |->
        IF i = NUM_NEIGHBOURS THEN NUM_NEIGHBOURS + 1 ELSE FIXED_SET[i]]

ShortNeighbours == [i \in 1 .. (NUM_NEIGHBOURS - 1) |-> FIXED_SET[i]]

NeighbourLists ==
    {FIXED_SET, SwappedNeighbours, OutsiderNeighbours, ShortNeighbours}

\* All of a participant's trust on the first participant.
SkewedScores == [i \in 1 .. NUM_NEIGHBOURS |-> IF i = 1 THEN INITIAL_SCORE ELSE 0]

ScoreVectors == {InitialScores, SkewedScores}

\* A signature by the signer over the attested contents; the same by another
\* key; the signer's signature over other scores.
SignaturesFor(pk, neighbours, scores) ==
    { Sign(pk, pk, MessageHash(neighbours, scores)),
      Sign((pk % NUM_NEIGHBOURS) + 1, pk, MessageHash(neighbours, scores)),
      Sign(pk, pk, MessageHash(neighbours, InitScore)) }

AttestationInputs ==
    { NewAttestation(sig, pk, ns, sc) :
        <<sig, pk, ns, sc>> \in
            { t \in UNION { UNION { { <<s, p, n, c>> :
                                        s \in SignaturesFor(p, n, c) } :
                                    <<n, c>> \in NeighbourLists \X ScoreVectors } :
                            p \in Submitters \cup Outsiders } : TRUE } }

(***************************************************************************)
(* State.                                                                  *)
(***************************************************************************)
VARIABLES
    attestations,   \* Manager.attestations: pk hash -> attestation
    cached_proofs,  \* Manager.cached_proofs: epoch -> proof
    last,           \* the last call on the manager and what it returned
    panicked,       \* the caller of the manager has panicked
    stored,         \* history: pk hash -> the attestation stored last
    computed,       \* history: epoch -> the proof of the last completed run
    lock,           \* the Mutex around the Manager: the guard alive, if any
    poisoned,       \* the Mutex is poisoned
    alive,          \* the process is running
    conn_pc,        \* per connection: where handle_request stands
    conn_req,       \* per connection: the request being served, or served last
    conn_resp,      \* per connection: <<>> or <<the response>>
    run_pc,         \* where handle_epoch_convergence stands
    run_epoch,      \* its epoch
    run_i,          \* the rounds it has completed
    run_ops,        \* the scores it gathered
    run_s,          \* its score vector
    run_result,     \* how the last call of handle_epoch_convergence ended
    completed,      \* history: the ledger made by the submissions that returned
    run_ledger,     \* history: `completed` when the run took the lock
    now,            \* the clock
    deadline,       \* when the interval timer is due next
    loop_pc,        \* the branch of main's select! being run
    runs,           \* history: the epochs handed to handle_epoch_convergence
    net_peers,      \* Network.peers, in the order of the vector
    net_converged,  \* Network.is_converged
    net_ticked,     \* history: tick has run
    net_prev,       \* history: Network.peers before the last tick
    net_prev_converged, \* history: Network.is_converged before the last tick
    net_ref,        \* history: the same network, ticked in the order it stands in
    net_scores      \* <<>> or <<what get_global_trust_scores returned last>>

mgrVars == <<attestations, cached_proofs>>
apiVars == <<last, panicked, stored, computed>>
connVars == <<conn_pc, conn_req, conn_resp>>
runVars == <<run_pc, run_epoch, run_i, run_ops, run_s, run_result>>
srvVars == <<lock, poisoned, alive, connVars, runVars, completed, run_ledger>>
loopVars == <<now, deadline, loop_pc, runs>>
netVars == <<net_peers, net_converged, net_ticked, net_prev, net_prev_converged,
             net_ref, net_scores>>
vars == <<mgrVars, apiVars, srvVars, loopVars, netVars>>

EmptyMap == [x \in {} |-> 0]

NoCall == [op |-> "none", arg |-> <<>>, status |-> "none", val |-> <<>>]

Call(op, arg, status, val) ==
    [op |-> op, arg |-> arg, status |-> status, val |-> val]

NoResponse == <<>>

Free == [holder |-> "none", id |-> 0]

\* Nothing is being served, no run is under way, the clock plays no part.
ApiIdle ==
    /\ last = NoCall
    /\ panicked = FALSE
    /\ stored = EmptyMap
    /\ computed = EmptyMap

ServerIdle ==
    /\ lock = Free
    /\ poisoned = FALSE
    /\ alive = TRUE
    /\ conn_pc = [c \in Conns |-> "idle"]
    /\ conn_req = [c \in Conns |-> <<>>]
    /\ conn_resp = [c \in Conns |-> NoResponse]
    /\ run_pc = "idle"
    /\ run_epoch = 0
    /\ run_i = 0
    /\ run_ops = <<>>
    /\ run_s = <<>>
    /\ run_result = "none"
    /\ completed = EmptyMap
    /\ run_ledger = EmptyMap

LoopIdle ==
    /\ now = 0
    /\ deadline = 0
    /\ loop_pc = "select"
    /\ runs = <<>>

\* No network is simulated.
NetIdle ==
    /\ net_peers = <<>>
    /\ net_converged = FALSE
    /\ net_ticked = FALSE
    /\ net_prev = <<>>
    /\ net_prev_converged = FALSE
    /\ net_ref = <<>>
    /\ net_scores = <<>>

\* Manager::new
Init ==
    /\ attestations = EmptyMap
    /\ cached_proofs = EmptyMap
    /\ ApiIdle
    /\ ServerIdle
    /\ LoopIdle
    /\ NetIdle

(***************************************************************************)
(* The calls on a Manager, one at a time, by one caller.                   *)
(***************************************************************************)
\* add_attestation with the cached proofs dropped when the ledger changes
CachedProofsClearedByAdd(proofs, att) ==
    IF AddAttestationResult(att) = "Ok" THEN EmptyMap ELSE proofs

\* add_attestation writes self.attestations only: the cached proofs after it
CachedProofsAfterAdd(proofs, att) == proofs

CallAddAttestation(att) ==
    /\ ~panicked
    /\ LET status == AddAttestationResult(att)
       IN /\ last' = Call("add_attestation", <<att>>, status, <<>>)
          /\ IF status = "Ok"
             THEN /\ attestations' = InsertAttestation(attestations, att)
                  /\ stored' = MapInsert(stored, PkHash(att.pk), att)
             ELSE UNCHANGED <<attestations, stored>>
    /\ cached_proofs' = CachedProofsAfterAdd(cached_proofs, att)
    /\ UNCHANGED <<panicked, computed>>
    /\ UNCHANGED <<srvVars, loopVars, netVars>>

CallGetAttestation(pk) ==
    /\ ~panicked
    /\ last' = IF PkHash(pk) \in DOMAIN attestations
               THEN Call("get_attestation", <<pk>>, "Ok",
                         <<attestations[PkHash(pk)]>>)
               ELSE Call("get_attestation", <<pk>>, "AttestationNotFound", <<>>)
    /\ UNCHANGED <<attestations, cached_proofs, panicked, stored, computed>>
    /\ UNCHANGED <<srvVars, loopVars, netVars>>

CallGenerateInitialAttestations ==
    /\ ~panicked
    /\ attestations' = GenerateInitialAttestations(attestations)
    /\ stored' = [h \in (DOMAIN stored) \cup Range(PUBLIC_KEYS) |->
                     IF h \in Range(PUBLIC_KEYS)
                     THEN InitialAttestation(CHOOSE i \in 1 .. NUM_NEIGHBOURS :
                                                 PUBLIC_KEYS[i] = h)
                     ELSE stored[h]]
    /\ last' = Call("generate_initial_attestations", <<>>, "Ok", <<>>)
    /\ UNCHANGED <<cached_proofs, panicked, computed>>
    /\ UNCHANGED <<srvVars, loopVars, netVars>>

CallCalculateProofs(epoch) ==
    /\ ~panicked
    /\ IF MissingAttestation(attestations)
       THEN /\ last' = Call("calculate_proofs", <<epoch>>, "Panic", <<>>)
            /\ panicked' = TRUE
            /\ UNCHANGED <<cached_proofs, computed>>
       ELSE /\ cached_proofs' =
                   InsertProof(cached_proofs, epoch, ProofOf(attestations))
            /\ computed' = MapInsert(computed, epoch,
                               MakeProof(Native(InitScore, GatherOps(attestations))))
            /\ last' = Call("calculate_proofs", <<epoch>>, "Ok", <<>>)
            /\ UNCHANGED panicked
    /\ UNCHANGED <<attestations, stored>>
    /\ UNCHANGED <<srvVars, loopVars, netVars>>

\* self.cached_proofs.get(&epoch).ok_or(EigenError::ProofNotFound).cloned()
GetProof(proofs, epoch) ==
    IF epoch \in DOMAIN proofs
    THEN [status |-> "Ok", val |-> <<proofs[epoch]>>]
    ELSE [status |-> "ProofNotFound", val |-> <<>>]

CallGetProof(epoch) ==
    /\ ~panicked
    /\ LET r == GetProof(cached_proofs, epoch)
       IN last' = Call("get_proof", <<epoch>>, r.status, r.val)
    /\ UNCHANGED <<attestations, cached_proofs, panicked, stored, computed>>
    /\ UNCHANGED <<srvVars, loopVars, netVars>>

CallGetLastProof ==
    /\ ~panicked
    /\ LET epoch == LastEpoch(cached_proofs)
       IN IF epoch = <<>>
          THEN \* epoch.unwrap() on None
               /\ last' = Call("get_last_proof", <<>>, "Panic", <<>>)
               /\ panicked' = TRUE
          ELSE /\ LET r == GetProof(cached_proofs, epoch[1])
                  IN last' = Call("get_last_proof", <<>>, r.status, r.val)
               /\ UNCHANGED panicked
    /\ UNCHANGED <<attestations, cached_proofs, stored, computed>>
    /\ UNCHANGED <<srvVars, loopVars, netVars>>

Next ==
    \/ \E att \in AttestationInputs : CallAddAttestation(att)
    \/ \E pk \in Keys : CallGetAttestation(pk)
    \/ CallGenerateInitialAttestations
    \/ \E epoch \in Epochs : CallCalculateProofs(epoch)
    \/ \E epoch \in Epochs : CallGetProof(epoch)
    \/ CallGetLastProof

Spec == Init /\ [][Next]_vars

(***************************************************************************)
(* The server of main.rs.  handle_request and handle_epoch_convergence     *)
(* take the Manager through an Arc<Mutex<Manager>>; each is a sequence of  *)
(* steps, and the steps of different callers interleave.                   *)
(***************************************************************************)
BAD_REQUEST == 400
NOT_FOUND == 404
INTERNAL_SERVER_ERROR == 500

NUM_ITERATIONS == NUM_ITER

ConnGuard(c) == [holder |-> "conn", id |-> c]
RunGuard == [holder |-> "run", id |-> 0]

\* Mutex::lock returns once no other guard is alive ...
LockAvailableAlways(l) == TRUE

LockAvailable(l) == l = Free

\* ... and returns Err when the mutex is poisoned: manager.is_err()
LockIsErrNever(p) == FALSE

LockIsErr(p) == p

Response(status, body) == [status |-> status, body |-> body]

\* Response::new
OkResponse(body) == Response(200, body)

ScoreRequest(query) ==
    [method |-> "GET", path |-> "/score", query |-> query, body |-> <<>>]

SignatureRequest(body) ==
    [method |-> "POST", path |-> "/signature", query |-> <<>>, body |-> body]

OtherRequest ==
    [method |-> "GET", path |-> "/non_existing_route", query |-> <<>>, body |-> <<>>]

Query(pk, epoch) == [pk |-> pk, epoch |-> epoch]

\* A query string is the sequence of its pieces: the separators "&" and "="
\* and the texts between them.  str::split gives the runs between the
\* separators, one more than there are separators.
RECURSIVE SplitFrom(_, _, _)
SplitFrom(s, sep, piece) ==
    IF s = <<>> THEN <<piece>>
    ELSE IF Head(s) = sep THEN <<piece>> \o SplitFrom(Tail(s), sep, <<>>)
    ELSE SplitFrom(Tail(s), sep, Append(piece, Head(s)))

Split(s, sep) == SplitFrom(s, sep, <<>>)

\* The base58 text of a scalar, and bs58::decode(text).into_vec(): the bytes,
\* or an error (<<>>) for a text that is no base58.  The empty text decodes
\* to no bytes, which to_wide fills up with zeros.
Bs58Encode(h) == "b" \o ToString(h)

Bs58Decode(text) ==
    IF text = <<>> THEN <<0>>
    ELSE IF Len(text) = 1 /\ \E pk \in Keys : Bs58Encode(PkHash(pk)) = text[1]
    THEN <<PkHash(CHOOSE pk \in Keys : Bs58Encode(PkHash(pk)) = text[1])>>
    ELSE <<>>

\* str::parse::<u64>
ParseU64(text) ==
    IF Len(text) = 1 /\ \E e \in Epochs : ToString(e) = text[1]
    THEN <<CHOOSE e \in Epochs : ToString(e) = text[1]>>
    ELSE <<>>

\* The rest of Query::parse, once the pairs are split.
QueryFromPairs(pair1, pair2) ==
    IF Len(pair1) # 2 \/ Len(pair2) # 2 THEN <<>>
    ELSE LET map == MapInsert(MapInsert(EmptyMap, pair1[1], pair1[2]),
                              pair2[1], pair2[2])
         IN IF <<"pk">> \notin DOMAIN map \/ <<"epoch">> \notin DOMAIN map
            THEN <<>>
            ELSE LET pk_bytes == Bs58Decode(map[<<"pk">>])
                     epoch_res == ParseU64(map[<<"epoch">>])
                 IN IF pk_bytes = <<>> \/ epoch_res = <<>> THEN <<>>
                    ELSE <<Query(pk_bytes[1] % FieldModulus, epoch_res[1])>>

\* Query::parse without the check of parts.len(): the first two parts count.
QueryParseFirstParts(query_string) ==
    LET parts == Split(query_string, "&")
    IN IF Len(parts) < 2 THEN <<>>
       ELSE QueryFromPairs(Split(parts[1], "="), Split(parts[2], "="))

\* Query::parse: Some(Query) as <<query>>, None as <<>>
QueryParse(query_string) ==
    LET parts == Split(query_string, "&")
    IN IF Len(parts) # 2 THEN <<>>
       ELSE QueryFromPairs(Split(parts[1], "="), Split(parts[2], "="))

\* query.unwrap()
QueryOf(req) == QueryParse(req.query[1])[1]

\* The body of a request is JSON text, the sequence of its members
\* <<name, value>>.  serde_json::to_vec writes the fields of the struct in
\* their order.
DataFields == <<"sig_r_x", "sig_r_y", "sig_s", "pk", "neighbours", "scores">>

ToVec(data) == [i \in 1 .. Len(DataFields) |-> <<DataFields[i], data[DataFields[i]]>>]

MembersNamed(body, name) == { i \in 1 .. Len(body) : body[i][1] = name }

\* from_reader with every field #[serde(default)]
FromReaderDefaulting(body) ==
    LET default == [ sig_r_x |-> ToBytes(0), sig_r_y |-> ToBytes(0),
                     sig_s |-> ToBytes(<<0, 0>>), pk |-> PkToRaw(DefaultPublicKey),
                     neighbours |-> <<>>, scores |-> <<>> ]
    IN <<[ name \in Range(DataFields) |->
             IF MembersNamed(body, name) = {} THEN default[name]
             ELSE body[CHOOSE i \in MembersNamed(body, name) : TRUE][2] ]>>

\* serde_json::from_reader: the data as <<data>>, or an error (<<>>) for a
\* text in which a field is missing or given twice.
FromReader(body) ==
    IF \A k \in 1 .. Len(DataFields) :
           Cardinality(MembersNamed(body, DataFields[k])) = 1
    THEN <<[ name \in Range(DataFields) |->
               body[CHOOSE i \in MembersNamed(body, name) : TRUE][2] ]>>
    ELSE <<>>

\* data.unwrap()
DataOf(req) == FromReader(req.body)[1]

IsScore(req) == req.method = "GET" /\ req.path = "/score"
IsSignature(req) == req.method = "POST" /\ req.path = "/signature"

\* The answer handle_request gives before it asks for the manager, if any:
\* no query or one Query::parse refuses, a body that is no SignatureData,
\* an unknown route.  The query of a request is <<>> or <<query_string>>.
EarlyResponse(req) ==
    IF IsScore(req)
    THEN IF req.query = <<>>
         THEN <<Response(BAD_REQUEST, <<"InvalidQuery">>)>>
         ELSE IF QueryParse(req.query[1]) = <<>>
         THEN <<Response(BAD_REQUEST, <<"InvalidQuery">>)>>
         ELSE NoResponse
    ELSE IF IsSignature(req)
    THEN IF FromReader(req.body) = <<>>
         THEN <<Response(BAD_REQUEST, <<"InvalidRequest">>)>>
         ELSE NoResponse
    ELSE <<Response(NOT_FOUND, <<"InvalidRequest">>)>>

\* m.get_op_jis(sig, query.epoch, NUM_ITERATIONS) summed: the score of the
\* participant in the result of the epoch, nothing for an epoch without one.
OpJisSum(proofs, pk_hash, epoch) ==
    IF epoch \in DOMAIN proofs /\ pk_hash \in Range(PUBLIC_KEYS)
    THEN proofs[epoch].pub_ins[CHOOSE i \in 1 .. NUM_NEIGHBOURS :
                                   PUBLIC_KEYS[i] = pk_hash]
    ELSE 0

\* GET /score with the manager locked, the outcome of get_signature not
\* looked at.
ScoreResponseUnchecked(atts, proofs, query) ==
    OkResponse(<<"Score", OpJisSum(proofs, query.pk, query.epoch)>>)

\* GET /score with the manager locked, the contributions read for the epoch
\* after the one of the query.
ScoreResponseOfNextEpoch(atts, proofs, query) ==
    IF query.pk \notin DOMAIN atts
    THEN Response(BAD_REQUEST, <<"InvalidQuery">>)
    ELSE OkResponse(<<"Score",
             OpJisSum(proofs, query.pk, (query.epoch + 1) % (MaxEpoch + 1))>>)

\* GET /score with the manager locked.
ScoreResponse(atts, proofs, query) ==
    IF query.pk \notin DOMAIN atts
    THEN Response(BAD_REQUEST, <<"InvalidQuery">>)
    ELSE OkResponse(<<"Score", OpJisSum(proofs, query.pk, query.epoch)>>)

\* POST /signature with the manager locked: m.add_signature(sig), whose
\* outcome is not looked at.
AddSignature(atts, att) ==
    IF AddAttestationResult(att) = "Ok" THEN InsertAttestation(atts, att) ELSE atts

SetConn(f, c, v) == [f EXCEPT ![c] = v]

\* handle_request up to arc_manager.lock()
ConnReceive(c, req) ==
    /\ alive
    /\ conn_pc[c] = "idle"
    /\ conn_req' = SetConn(conn_req, c, <<req>>)
    /\ conn_resp' = SetConn(conn_resp, c, EarlyResponse(req))
    /\ conn_pc' = SetConn(conn_pc, c,
                     IF EarlyResponse(req) = NoResponse THEN "lock" ELSE "idle")
    /\ UNCHANGED <<mgrVars, apiVars, lock, poisoned, alive, runVars,
                   completed, run_ledger>>

\* arc_manager.lock(), and the LockError answer
ConnLock(c) ==
    /\ alive
    /\ conn_pc[c] = "lock"
    /\ LockAvailable(lock)
    /\ IF LockIsErr(poisoned)
       THEN /\ conn_resp' = SetConn(conn_resp, c,
                   <<Response(INTERNAL_SERVER_ERROR, <<"LockError">>)>>)
            /\ conn_pc' = SetConn(conn_pc, c, "idle")
            /\ UNCHANGED lock
       ELSE /\ lock' = ConnGuard(c)
            /\ conn_pc' = SetConn(conn_pc, c, "locked")
            /\ UNCHANGED conn_resp
    /\ UNCHANGED <<mgrVars, apiVars, poisoned, alive, conn_req, runVars,
                   completed, run_ledger>>

\* the calls on the manager, and the response built from them
ConnServe(c) ==
    /\ alive
    /\ conn_pc[c] = "locked"
    /\ LET req == conn_req[c][1]
       IN IF IsScore(req)
          THEN /\ conn_resp' = SetConn(conn_resp, c,
                      <<ScoreResponse(attestations, cached_proofs, QueryOf(req))>>)
               /\ conn_pc' = SetConn(conn_pc, c, "served")
               /\ UNCHANGED <<attestations, cached_proofs, lock, poisoned, alive>>
          ELSE IF FromDataPanics(DataOf(req))
          THEN \* data.clone().into() unwraps a None with the guard `m` alive:
               \* the mutex is poisoned and the panic leaves handle_request.
               /\ lock' = Free
               /\ poisoned' = TRUE
               /\ alive' = FALSE
               /\ conn_pc' = SetConn(conn_pc, c, "panicked")
               /\ UNCHANGED <<attestations, cached_proofs, conn_resp>>
          ELSE /\ attestations' =
                      AddSignature(attestations, AttestationFromData(DataOf(req)))
               /\ cached_proofs' =
                      CachedProofsAfterAdd(cached_proofs, AttestationFromData(DataOf(req)))
               /\ conn_resp' = SetConn(conn_resp, c,
                      <<OkResponse(<<"SignatureAddSuccess">>)>>)
               /\ conn_pc' = SetConn(conn_pc, c, "served")
               /\ UNCHANGED <<lock, poisoned, alive>>
    /\ UNCHANGED <<apiVars, conn_req, runVars, completed, run_ledger>>

\* return Ok(res): the guard is dropped
ConnReturn(c) ==
    /\ alive
    /\ conn_pc[c] = "served"
    /\ lock' = Free
    /\ conn_pc' = SetConn(conn_pc, c, "idle")
    /\ LET req == conn_req[c][1]
           att == AttestationFromData(DataOf(req))
       IN completed' =
              IF IsSignature(req) /\ AddAttestationResult(att) = "Ok"
              THEN MapInsert(completed, PkHash(att.pk), att)
              ELSE completed
    /\ UNCHANGED <<mgrVars, apiVars, poisoned, alive, conn_req, conn_resp,
                   runVars, run_ledger>>

\* handle_epoch_convergence(arc_manager, epoch) is called
RunStart(epoch) ==
    /\ alive
    /\ run_pc = "idle"
    /\ run_pc' = "lock"
    /\ run_epoch' = epoch
    /\ UNCHANGED <<mgrVars, apiVars, lock, poisoned, alive, connVars,
                   run_i, run_ops, run_s, run_result, completed, run_ledger>>

\* arc_manager.lock(); on an error, println! and return
RunLock ==
    /\ alive
    /\ run_pc = "lock"
    /\ LockAvailable(lock)
    /\ IF LockIsErr(poisoned)
       THEN /\ run_result' = "LockError"
            /\ run_pc' = "idle"
            /\ UNCHANGED <<lock, run_ledger>>
       ELSE /\ lock' = RunGuard
            /\ run_pc' = "init"
            /\ run_ledger' = completed
            /\ UNCHANGED run_result
    /\ UNCHANGED <<mgrVars, apiVars, poisoned, alive, connVars, run_epoch,
                   run_i, run_ops, run_s, completed>>

\* The guard `manager` lives to the end of handle_epoch_convergence.
RunGuardDroppedAfterInit == Free

RunGuardAfterInit == RunGuard

\* manager.calculate_initial_ivps(epoch): the participants' scores are
\* gathered; the unwrap of a missing attestation panics with the guard
\* alive, which poisons the mutex, and the panic ends the caller.
RunInit ==
    /\ alive
    /\ run_pc = "init"
    /\ IF MissingAttestation(attestations)
       THEN /\ lock' = Free
            /\ poisoned' = TRUE
            /\ alive' = FALSE
            /\ run_pc' = "idle"
            /\ run_result' = "Panic"
            /\ UNCHANGED <<run_i, run_ops, run_s>>
       ELSE /\ run_ops' = GatherOps(attestations)
            /\ run_s' = InitScore
            /\ run_i' = 0
            /\ run_pc' = "iter"
            /\ lock' = RunGuardAfterInit
            /\ UNCHANGED <<poisoned, alive, run_result>>
    /\ UNCHANGED <<mgrVars, apiVars, connVars, run_epoch, completed, run_ledger>>

\* manager.calculate_ivps(epoch, i)
RunIter ==
    /\ alive
    /\ run_pc = "iter"
    /\ run_i < NUM_ITERATIONS
    /\ run_s' = NativeRound(run_s, run_ops)
    /\ run_i' = run_i + 1
    /\ UNCHANGED <<mgrVars, apiVars, lock, poisoned, alive, connVars, run_pc,
                   run_epoch, run_ops, run_result, completed, run_ledger>>

\* the result is cached and the function returns: the guard is dropped
RunFinish ==
    /\ alive
    /\ run_pc = "iter"
    /\ run_i = NUM_ITERATIONS
    /\ cached_proofs' = InsertProof(cached_proofs, run_epoch, MakeProof(run_s))
    /\ lock' = Free
    /\ run_pc' = "idle"
    /\ run_result' = "Ok"
    /\ UNCHANGED <<attestations, apiVars, poisoned, alive, connVars, run_epoch,
                   run_i, run_ops, run_s, completed, run_ledger>>

\* A holder of the mutex other than the two handlers panics with its guard
\* alive: the mutex is poisoned from then on.
GuardHolderPanics ==
    /\ alive
    /\ lock = Free
    /\ ~poisoned
    /\ poisoned' = TRUE
    /\ UNCHANGED <<mgrVars, apiVars, lock, alive, connVars, runVars,
                   completed, run_ledger>>

(***************************************************************************)
(* The requests served.                                                    *)
(***************************************************************************)
ValidAttestation(pk, scores) ==
    NewAttestation(Sign(pk, pk, MessageHash(FIXED_SET, scores)), pk, FIXED_SET, scores)

ServerAttestations ==
    { ValidAttestation(pk, SkewedScores) : pk \in Submitters }
        \cup { NewAttestation(Sign(1, 1, MessageHash(FIXED_SET, InitScore)),
                              1, FIXED_SET, SkewedScores) }

\* The query strings of the callers: pk=..&epoch=.. for a participant and for
\* an outsider, one with the epoch first, and the ones of the tests that
\* Query::parse refuses, with some more.
QueryString(pk_hash, epoch) ==
    <<"pk", "=", Bs58Encode(pk_hash), "&", "epoch", "=", ToString(epoch)>>

EpochFirstQuery ==
    <<"epoch", "=", ToString(MaxEpoch), "&", "pk", "=", Bs58Encode(PkHash(1))>>

RefusedQueries ==
    { <<"pk", "=", Bs58Encode(PkHash(1))>>,
      <<"pk", "=", "abcd__123", "&", "epoch", "=", ToString(0)>>,
      <<"pk", "=", Bs58Encode(PkHash(1)), "&", "epoch", "=", "abc">>,
      <<"pk", "=", Bs58Encode(PkHash(1)), "&", "pk", "=", Bs58Encode(PkHash(1))>>,
      QueryString(PkHash(1), 0) \o <<"&", "x", "=", ToString(0)>>,
      <<"pk", "=", Bs58Encode(PkHash(1)), "=", "&", "epoch", "=", ToString(0)>> }

ServerQueries ==
    { QueryString(PkHash(pk), epoch) : pk \in {1} \cup Outsiders, epoch \in Epochs }
        \cup {EpochFirstQuery} \cup RefusedQueries

\* The wire forms of these; the first with the bytes of s not a scalar; the
\* first with a sixth neighbour and a sixth score; the first without its last
\* score, which is zero.
OverflownData ==
    LET data == DataFromAttestation(ValidAttestation(1, SkewedScores))
    IN [data EXCEPT !.sig_s = Overflown(data.sig_s)]

LongData ==
    LET data == DataFromAttestation(ValidAttestation(1, SkewedScores))
    IN [data EXCEPT !.neighbours = data.neighbours \o <<PkToRaw(1)>>,
                    !.scores = data.scores \o <<ToBytes(INITIAL_SCORE)>>]

ShortData ==
    LET data == DataFromAttestation(ValidAttestation(1, SkewedScores))
    IN [data EXCEPT !.scores = SubSeq(data.scores, 1, NUM_NEIGHBOURS - 1)]

ServerData ==
    { DataFromAttestation(att) : att \in ServerAttestations }
        \cup {OverflownData, LongData, ShortData}

\* The text of a submission without its first bytes.
TruncatedBody == Tail(ToVec(DataFromAttestation(ValidAttestation(1, SkewedScores))))

ServerRequests ==
    { ScoreRequest(<<q>>) : q \in ServerQueries }
        \cup { SignatureRequest(ToVec(data)) : data \in ServerData }
        \cup { ScoreRequest(<<>>), SignatureRequest(<<>>),
               SignatureRequest(TruncatedBody), OtherRequest }

(***************************************************************************)
(* SpecServer: the handlers, called at any time by any caller, over a      *)
(* manager that is new or holds the initial attestations.                  *)
(***************************************************************************)
ServerInit ==
    /\ attestations \in {EmptyMap, GenerateInitialAttestations(EmptyMap)}
    /\ cached_proofs = EmptyMap
    /\ ApiIdle
    /\ lock = Free
    /\ poisoned = FALSE
    /\ alive = TRUE
    /\ conn_pc = [c \in Conns |-> "idle"]
    /\ conn_req = [c \in Conns |-> <<>>]
    /\ conn_resp = [c \in Conns |-> NoResponse]
    /\ run_pc = "idle"
    /\ run_epoch = 0
    /\ run_i = 0
    /\ run_ops = <<>>
    /\ run_s = <<>>
    /\ run_result = "none"
    /\ completed = attestations
    /\ run_ledger = EmptyMap
    /\ LoopIdle
    /\ NetIdle

ServerNext ==
    \/ \E c \in Conns, req \in ServerRequests :
           ConnReceive(c, req) /\ UNCHANGED <<loopVars, netVars>>
    \/ \E c \in Conns : ConnLock(c) /\ UNCHANGED <<loopVars, netVars>>
    \/ \E c \in Conns : ConnServe(c) /\ UNCHANGED <<loopVars, netVars>>
    \/ \E c \in Conns : ConnReturn(c) /\ UNCHANGED <<loopVars, netVars>>
    \/ \E epoch \in Epochs : RunStart(epoch) /\ UNCHANGED <<loopVars, netVars>>
    \/ RunLock /\ UNCHANGED <<loopVars, netVars>>
    \/ RunInit /\ UNCHANGED <<loopVars, netVars>>
    \/ RunIter /\ UNCHANGED <<loopVars, netVars>>
    \/ RunFinish /\ UNCHANGED <<loopVars, netVars>>
    \/ GuardHolderPanics /\ UNCHANGED <<loopVars, netVars>>

SpecServer == ServerInit /\ [][ServerNext]_vars

(***************************************************************************)
(* SpecLoop: main.  One task runs the select! loop: a connection is served *)
(* to its end, or the interval timer fires and the convergence run is made *)
(* to its end, while the clock goes on.                                    *)
(***************************************************************************)
\* The interval, in ticks of the clock.
EPOCH_INTERVAL == 2

\* The clock stops here.
MaxTime == 5

\* Epoch::current_epoch(EPOCH_INTERVAL)
CurrentEpoch(t) == t \div EPOCH_INTERVAL

\* MissedTickBehavior::Skip: the next multiple of the period after `t`,
\* counted from the deadline that has passed.
NextDeadline(t, due) == t + EPOCH_INTERVAL - ((t - due) % EPOCH_INTERVAL)

LoopRequests ==
    { ScoreRequest(<<QueryString(PkHash(1), 0)>>),
      SignatureRequest(ToVec(DataFromAttestation(ValidAttestation(1, SkewedScores)))),
      OtherRequest }

LoopInit ==
    /\ attestations \in {EmptyMap, GenerateInitialAttestations(EmptyMap)}
    /\ cached_proofs = EmptyMap
    /\ ApiIdle
    /\ lock = Free
    /\ poisoned = FALSE
    /\ alive = TRUE
    /\ conn_pc = [c \in Conns |-> "idle"]
    /\ conn_req = [c \in Conns |-> <<>>]
    /\ conn_resp = [c \in Conns |-> NoResponse]
    /\ run_pc = "idle"
    /\ run_epoch = 0
    /\ run_i = 0
    /\ run_ops = <<>>
    /\ run_s = <<>>
    /\ run_result = "none"
    /\ completed = attestations
    /\ run_ledger = EmptyMap
    /\ now \in 0 .. (EPOCH_INTERVAL - 1)
    /\ deadline = now
    /\ loop_pc = "select"
    /\ runs = <<>>
    /\ NetIdle

ClockAdvance ==
    /\ alive
    /\ now < MaxTime
    /\ now' = now + 1
    /\ UNCHANGED <<mgrVars, apiVars, srvVars, deadline, loop_pc, runs, netVars>>

\* res = listener.accept() => handle_connection(stream, addr).await
LoopAccept(req) ==
    /\ loop_pc = "select"
    /\ ConnReceive(1, req)
    /\ loop_pc' = IF conn_pc'[1] = "idle" THEN "select" ELSE "conn"
    /\ UNCHANGED <<now, deadline, runs, netVars>>

LoopConnection ==
    /\ loop_pc = "conn"
    /\ \/ ConnLock(1)
       \/ ConnServe(1)
       \/ ConnReturn(1)
    /\ loop_pc' = IF conn_pc'[1] = "idle" THEN "select" ELSE "conn"
    /\ UNCHANGED <<now, deadline, runs, netVars>>

\* _res = inner_interval.tick() => handle_epoch_convergence(mng_store, epoch)
LoopTick ==
    /\ loop_pc = "select"
    /\ now >= deadline
    /\ RunStart(CurrentEpoch(now))
    /\ deadline' = NextDeadline(now, deadline)
    /\ runs' = Append(runs, CurrentEpoch(now))
    /\ loop_pc' = "run"
    /\ UNCHANGED <<now, netVars>>

LoopConvergence ==
    /\ loop_pc = "run"
    /\ \/ RunLock
       \/ RunInit
       \/ RunIter
       \/ RunFinish
    /\ loop_pc' = IF run_pc' = "idle" THEN "select" ELSE "run"
    /\ UNCHANGED <<now, deadline, runs, netVars>>

LoopNext ==
    \/ ClockAdvance
    \/ \E req \in LoopRequests : LoopAccept(req)
    \/ LoopConnection
    \/ LoopTick
    \/ LoopConvergence

SpecLoop == LoopInit /\ [][LoopNext]_vars

(***************************************************************************)
(* The simulated network of src/network.rs.  A peer holds its index, its   *)
(* global score ti, its convergence flag and the local trust it gives to   *)
(* each neighbour.  Scores are whole numbers here, on which the floating   *)
(* point sums and products of the code are exact; a quotient is kept as a  *)
(* fraction in lowest terms, and 0/0 is NaN.                               *)
(***************************************************************************)
\* NetworkConfig::DELTA
DELTA == 2

\* The peers of the network.
NumPeers == 3
\* Ticks are followed while no score is above this.
MaxScore == 4

Positions == 1 .. NumPeers

\* Peer::new(index, initial_trust_score)
PeerNew(index, ti) ==
    [index |-> index, ti |-> ti, is_converged |-> FALSE, neighbors |-> EmptyMap]

\* Network::new(size, initial_trust_scores): peer x of 0 .. size - 1 stands
\* at place x + 1 of the vector.
NetworkNew(size, initial_trust_scores) ==
    [x \in 1 .. size |-> PeerNew(x - 1, initial_trust_scores[x])]

\* Network::connect_peers: the peer at place i is given the peer at place j
\* as a neighbour, with local trust c_ij, for every j other than i.
ConnectPeers(peers, local_trust_matrix) ==
    [i \in 1 .. Len(peers) |->
        [peers[i] EXCEPT !.neighbors =
            [idx \in (DOMAIN @) \cup {peers[j].index : j \in (1 .. Len(peers)) \ {i}} |->
                IF \E j \in (1 .. Len(peers)) \ {i} : peers[j].index = idx
                THEN local_trust_matrix[i][CHOOSE j \in (1 .. Len(peers)) \ {i} :
                                               peers[j].index = idx]
                ELSE @[idx]]]]

\* The local trust that peer p gives to the peer of that index.
LocalTrust(p, index) ==
    IF index \in DOMAIN p.neighbors THEN p.neighbors[index] ELSE 0

\* The sum over the peers of `peers`, from place j on, of the trust each
\* gives to `peer` times its score.
RECURSIVE TrustSum(_, _, _)
TrustSum(peer, peers, j) ==
    IF j > Len(peers) THEN 0
    ELSE (IF peers[j].index = peer.index THEN 0
          ELSE LocalTrust(peers[j], peer.index) * peers[j].ti)
         + TrustSum(peer, peers, j + 1)

Abs(x) == IF x < 0 THEN -x ELSE x

\* Peer::heartbeat(peers, delta): the new score is the trust-weighted sum of
\* the scores of the peers it is given; the peer is converged when its score
\* moved by less than delta.
Heartbeat(peer, peers, delta) ==
    LET new_ti == TrustSum(peer, peers, 1)
    IN [peer EXCEPT !.ti = new_ti, !.is_converged = Abs(new_ti - peer.ti) < delta]

\* temp_peers.shuffle(rng): the clone of the peers in the order `perm`.
Shuffle(peers, perm) == [k \in 1 .. Len(peers) |-> peers[perm[k]]]

\* The loop of tick: every peer of temp_peers makes its heartbeat over
\* self.peers, which the loop does not change.
TickPeers(peers, perm) ==
    LET temp_peers == Shuffle(peers, perm)
    IN [k \in 1 .. Len(peers) |-> Heartbeat(temp_peers[k], peers, DELTA)]

\* is_converged = is_converged && peer.is_converged(), for some peer only
AnyConverged(peers) == \E k \in 1 .. Len(peers) : peers[k].is_converged

AllConverged(peers) == \A k \in 1 .. Len(peers) : peers[k].is_converged

RECURSIVE SumTi(_, _)
SumTi(peers, k) ==
    IF k > Len(peers) THEN 0 ELSE peers[k].ti + SumTi(peers, k + 1)

RECURSIVE Gcd(_, _)
Gcd(a, b) == IF b = 0 THEN a ELSE Gcd(b, a % b)

NaN == [num |-> 0, den |-> 0]

\* a / b on floats that hold whole numbers, a and b not negative
Div(a, b) ==
    IF b = 0 THEN NaN
    ELSE [num |-> a \div Gcd(a, b), den |-> b \div Gcd(a, b)]

\* Network::get_global_trust_scores
GetGlobalTrustScores(peers) ==
    LET sum == SumTi(peers, 1)
    IN [k \in 1 .. Len(peers) |-> Div(peers[k].ti, sum)]

(***************************************************************************)
(* The networks simulated: the initial scores and the local trust given.   *)
(***************************************************************************)
InitialTrustScores == [Positions -> 0 .. 1]

\* Each peer trusts the next one; the first two trust each other and the
\* others trust the first; nobody trusts anybody; everybody trusts everybody.
CycleTrust ==
    [i \in Positions |-> [j \in Positions |-> IF j = (i % NumPeers) + 1 THEN 1 ELSE 0]]

PairTrust ==
    [i \in Positions |-> [j \in Positions |->
        IF i = 1 THEN (IF j = 2 THEN 1 ELSE 0) ELSE (IF j = 1 THEN 1 ELSE 0)]]

ZeroTrust == [i \in Positions |-> [j \in Positions |-> 0]]

FullTrust == [i \in Positions |-> [j \in Positions |-> 1]]

LocalTrustMatrices == {CycleTrust, PairTrust, ZeroTrust, FullTrust}

IdentityOrder == [k \in Positions |-> k]

(***************************************************************************)
(* SpecNetwork: a network is made, its peers are connected, and it is      *)
(* ticked and read in any order.                                           *)
(***************************************************************************)
NetInit ==
    /\ attestations = EmptyMap
    /\ cached_proofs = EmptyMap
    /\ ApiIdle
    /\ ServerIdle
    /\ LoopIdle
    /\ \E scores \in InitialTrustScores : net_peers = NetworkNew(NumPeers, scores)
    /\ net_converged = FALSE
    /\ net_ticked = FALSE
    /\ net_prev = net_peers
    /\ net_prev_converged = FALSE
    /\ net_ref = net_peers
    /\ net_scores = <<>>

\* connect_peers, which the driver calls before it ticks
NetConnectPeers(local_trust_matrix) ==
    /\ ~net_ticked
    /\ net_peers' = ConnectPeers(net_peers, local_trust_matrix)
    /\ net_ref' = ConnectPeers(net_ref, local_trust_matrix)
    /\ net_prev' = net_peers'
    /\ UNCHANGED <<net_converged, net_ticked, net_prev_converged, net_scores>>
    /\ UNCHANGED <<mgrVars, apiVars, srvVars, loopVars>>

\* tick(rng), the rng giving the order `perm`
NetTick(perm) ==
    /\ \A k \in Positions : TickPeers(net_peers, perm)[k].ti <= MaxScore
    /\ net_peers' = TickPeers(net_peers, perm)
    /\ net_converged' = AllConverged(net_peers')
    /\ net_ticked' = TRUE
    /\ net_prev' = net_peers
    /\ net_prev_converged' = net_converged
    /\ net_ref' = TickPeers(net_ref, IdentityOrder)
    /\ UNCHANGED net_scores
    /\ UNCHANGED <<mgrVars, apiVars, srvVars, loopVars>>

NetGetGlobalTrustScores ==
    /\ net_scores' = <<GetGlobalTrustScores(net_peers)>>
    /\ UNCHANGED <<net_peers, net_converged, net_ticked, net_prev,
                   net_prev_converged, net_ref>>
    /\ UNCHANGED <<mgrVars, apiVars, srvVars, loopVars>>

NetNext ==
    \/ \E local_trust_matrix \in LocalTrustMatrices :
           NetConnectPeers(local_trust_matrix)
    \/ \E perm \in Permutations(Positions) : NetTick(perm)
    \/ NetGetGlobalTrustScores

SpecNetwork == NetInit /\ [][NetNext]_vars

(***************************************************************************)
(* Claims about the Manager, checked under Spec.                           *)
(***************************************************************************)
IsMember(pk) == PkHash(pk) \in Range(PUBLIC_KEYS)

HasNonMember(att) ==
    \/ ~IsMember(att.pk)
    \/ \E i \in 1 .. Len(att.neighbours) : ~IsMember(att.neighbours[i])

\* C1: add_attestation on an attestation whose signer or one of whose
\* neighbours is not a member of the fixed set returns InvalidAttestation and
\* leaves the ledger as it was.
C1_NonMemberRejected ==
    [][(last'.op = "add_attestation" /\ HasNonMember(last'.arg[1]))
        => (last'.status = "InvalidAttestation" /\ attestations' = attestations)]_vars

C1_Witness ==
    /\ last.op = "add_attestation"
    /\ HasNonMember(last.arg[1])
    /\ last.status = "InvalidAttestation"
    /\ DOMAIN attestations # {}

BadSignature(att) ==
    ~VerifySig(att.sig, att.pk, MessageHash(att.neighbours, att.scores))

\* C2: add_attestation on an attestation whose signature does not verify
\* against its signer and the hash of its neighbours and scores returns
\* InvalidAttestation, and neither the ledger nor the cached proofs change.
C2_BadSignatureRejected ==
    [][(last'.op = "add_attestation" /\ BadSignature(last'.arg[1]))
        => /\ last'.status = "InvalidAttestation"
           /\ attestations' = attestations
           /\ cached_proofs' = cached_proofs]_vars

C2_Witness ==
    /\ last.op = "add_attestation"
    /\ ~HasNonMember(last.arg[1])
    /\ last.arg[1].neighbours = FIXED_SET
    /\ BadSignature(last.arg[1])
    /\ last.status = "InvalidAttestation"
    /\ DOMAIN attestations # {}
    /\ DOMAIN cached_proofs # {}

\* C3: get_attestation(pk) returns the attestation stored last under pk (a
\* later one of the same signer replaces the earlier one whole) and
\* AttestationNotFound when none was ever stored; every entry of the ledger
\* is keyed by its own signer, so a signer has at most one.
C3_GetReturnsLastStored ==
    /\ last.op = "get_attestation" =>
          IF PkHash(last.arg[1]) \in DOMAIN stored
          THEN last.status = "Ok" /\ last.val = <<stored[PkHash(last.arg[1])]>>
          ELSE last.status = "AttestationNotFound" /\ last.val = <<>>
    /\ \A h \in DOMAIN attestations : PkHash(attestations[h].pk) = h
    /\ DOMAIN attestations = DOMAIN stored

C3_Witness ==
    /\ last.op = "get_attestation"
    /\ last.status = "Ok"
    /\ last.val[1].scores = SkewedScores
    /\ ~MissingAttestation(attestations)

\* C8: get_proof(e) returns ProofNotFound exactly when no calculate_proofs(e)
\* has completed, and otherwise the proof of the last completed
\* calculate_proofs(e); calculate_proofs(e) leaves the proofs of the other
\* epochs as they were.
C8_GetProofInv ==
    last.op = "get_proof" =>
        IF last.arg[1] \in DOMAIN computed
        THEN last.status = "Ok" /\ last.val = <<computed[last.arg[1]]>>
        ELSE last.status = "ProofNotFound" /\ last.val = <<>>

C8_OtherEpochsKept ==
    last'.op = "calculate_proofs" =>
        /\ DOMAIN cached_proofs \subseteq DOMAIN cached_proofs'
        /\ DOMAIN cached_proofs' \subseteq (DOMAIN cached_proofs) \cup {last'.arg[1]}
        /\ \A e \in DOMAIN cached_proofs \ {last'.arg[1]} :
              cached_proofs'[e] = cached_proofs[e]

C8_ProofPerEpoch == []C8_GetProofInv /\ [][C8_OtherEpochsKept]_vars

C8_Witness ==
    /\ last.op = "get_proof"
    /\ last.status = "Ok"
    /\ DOMAIN cached_proofs = Epochs
    /\ \E e \in Epochs : cached_proofs[e] # last.val[1]

SetMax(S) == CHOOSE x \in S : \A y \in S : y <= x

\* C9: get_last_proof returns the proof cached for the greatest epoch present,
\* and a not-found error when the cache is empty.
C9_LastProofOrNotFound ==
    last.op = "get_last_proof" =>
        IF DOMAIN cached_proofs = {}
        THEN last.status = "ProofNotFound"
        ELSE /\ last.status = "Ok"
             /\ last.val = <<cached_proofs[SetMax(DOMAIN cached_proofs)]>>

\* The part of C9 that the code keeps: with a proof cached, the proof of the
\* greatest epoch is returned.
C9_LastProofOfGreatestEpoch ==
    (last.op = "get_last_proof" /\ DOMAIN cached_proofs # {}) =>
        /\ last.status = "Ok"
        /\ last.val = <<cached_proofs[SetMax(DOMAIN cached_proofs)]>>

(***************************************************************************)
(* Claims about the handlers, checked under SpecServer and SpecLoop.       *)
(***************************************************************************)
\* C4: a convergence run that finds a participant of the fixed set without an
\* attestation is skipped: nothing is cached, the process goes on running
\* and the manager can still be locked.
C4_IncompleteRunSkipped ==
    [][(run_pc = "init" /\ MissingAttestation(attestations) /\ run_pc' # "init")
        => /\ run_pc' = "idle"
           /\ cached_proofs' = cached_proofs
           /\ alive'
           /\ ~poisoned']_vars

\* C5: the epochs of the successive convergence runs of the main loop are
\* strictly increasing: no epoch is run twice.
C5_RunEpochsIncrease ==
    \A i \in 1 .. Len(runs) : \A j \in 1 .. Len(runs) :
        i < j => runs[i] < runs[j]

\* C6: while a run holds the manager, the ledger is the one made by the
\* submissions that had returned when the run took the lock, and the scores
\* the run computes over are those of that ledger.
C6_RunReadsCompletedSubmissions ==
    /\ run_pc \in {"init", "iter"} =>
          /\ attestations = completed
          /\ completed = run_ledger
    /\ run_pc = "iter" => run_ops = GatherOps(run_ledger)

C6_Witness ==
    /\ run_pc = "iter"
    /\ run_i > 0
    /\ run_ledger[PkHash(1)].scores = SkewedScores
    /\ conn_pc[1] = "lock"
    /\ IsSignature(conn_req[1][1])
    /\ PkFromRaw(DataOf(conn_req[1][1]).pk) = 2

\* C7: from its initialisation to its last round a run holds the manager: no
\* request is served in between, and a result enters the cache only from a
\* run that has made its NUM_ITERATIONS rounds.
C7_NoRequestInsideRun ==
    \A c \in Conns :
        conn_pc[c] \in {"locked", "served"} => run_pc \notin {"init", "iter"}

C7_CachedAfterAllRounds ==
    cached_proofs' # cached_proofs =>
        /\ run_pc = "iter"
        /\ run_i = NUM_ITERATIONS
        /\ lock = RunGuard

C7_RunHoldsManager == []C7_NoRequestInsideRun /\ [][C7_CachedAfterAllRounds]_vars

C7_Witness ==
    /\ run_pc = "iter"
    /\ run_i > 0
    /\ run_i < NUM_ITERATIONS
    /\ conn_pc[1] = "lock"
    /\ IsScore(conn_req[1][1])
    /\ DOMAIN cached_proofs # {}

LockErrorResponse == Response(INTERNAL_SERVER_ERROR, <<"LockError">>)

\* C10: with the mutex poisoned, a well-formed GET /score and a decodable
\* POST /signature are answered 500 LockError, an epoch tick skips its run,
\* the process goes on, the manager is not changed, and the mutex stays
\* poisoned.
C10_PoisonedStep ==
    poisoned =>
        /\ poisoned'
        /\ alive' = alive
        /\ attestations' = attestations
        /\ cached_proofs' = cached_proofs
        /\ \A c \in Conns :
              (conn_pc[c] = "lock" /\ conn_pc'[c] # "lock") =>
                  /\ conn_pc'[c] = "idle"
                  /\ conn_resp'[c] = <<LockErrorResponse>>
        /\ (run_pc = "lock" /\ run_pc' # "lock") =>
              /\ run_pc' = "idle"
              /\ run_result' = "LockError"

C10_LockErrorAnswered == [][C10_PoisonedStep]_vars

C10_Witness ==
    /\ poisoned
    /\ alive
    /\ run_result = "LockError"
    /\ run_pc = "idle"
    /\ conn_pc[1] = "idle"
    /\ conn_resp[1] = <<LockErrorResponse>>
    /\ IsSignature(conn_req[1][1])

\* The same for GET /score.
C10_WitnessScore ==
    /\ poisoned
    /\ alive
    /\ conn_resp[1] = <<LockErrorResponse>>
    /\ IsScore(conn_req[1][1])

(***************************************************************************)
(* Claims about the requests, checked under SpecServer and Spec.           *)
(***************************************************************************)
\* C11: handle_request ends every request with a response: it never panics
\* past its caller, whatever the bytes of a decodable body.
C11_RequestAnswered ==
    \A c \in Conns :
        /\ conn_pc[c] # "panicked"
        /\ (conn_pc[c] = "idle" /\ conn_req[c] # <<>>) => conn_resp[c] # NoResponse

InvalidQueryResponse == Response(BAD_REQUEST, <<"InvalidQuery">>)

InvalidRequestResponse == Response(BAD_REQUEST, <<"InvalidRequest">>)

\* Connection c is served in this step: the calls on the manager are made
\* and the response is built.
Served(c) == conn_pc[c] = "locked" /\ conn_pc'[c] = "served"

\* C12: GET /score with a well-formed query for an epoch without a cached
\* result is answered 400 InvalidQuery, whatever the public key.
C12_UnknownEpochRefused ==
    [][\A c \in Conns :
          (/\ Served(c)
           /\ IsScore(conn_req[c][1])
           /\ QueryOf(conn_req[c][1]).epoch \notin DOMAIN cached_proofs)
          => conn_resp'[c] = <<InvalidQueryResponse>>]_vars

\* C13: GET /score with a well-formed query for a public key without a
\* stored attestation is answered 400 InvalidQuery, also when the epoch has
\* a cached result.
C13_UnknownKeyRefused ==
    [][\A c \in Conns :
          (/\ Served(c)
           /\ IsScore(conn_req[c][1])
           /\ QueryOf(conn_req[c][1]).pk \notin DOMAIN attestations)
          => conn_resp'[c] = <<InvalidQueryResponse>>]_vars

C13_Witness ==
    /\ conn_pc[1] = "served"
    /\ IsScore(conn_req[1][1])
    /\ QueryOf(conn_req[1][1]).pk \notin DOMAIN attestations
    /\ QueryOf(conn_req[1][1]).epoch \in DOMAIN cached_proofs
    /\ conn_resp[1] = <<InvalidQueryResponse>>

\* C14: POST /signature answers SignatureAddSuccess only for an attestation
\* that the ledger accepted and stored; one that the ledger rejects is
\* answered 400 InvalidRequest and changes nothing.
C14_SuccessOnlyIfStored ==
    [][\A c \in Conns :
          (Served(c) /\ IsSignature(conn_req[c][1])) =>
              LET att == AttestationFromData(DataOf(conn_req[c][1]))
              IN IF AddAttestationResult(att) = "Ok"
                 THEN /\ conn_resp'[c] = <<OkResponse(<<"SignatureAddSuccess">>)>>
                      /\ attestations' = InsertAttestation(attestations, att)
                 ELSE /\ conn_resp'[c] = <<InvalidRequestResponse>>
                      /\ attestations' = attestations]_vars

WellFormedMember(att) ==
    /\ Len(att.neighbours) = NUM_NEIGHBOURS
    /\ Len(att.scores) = NUM_NEIGHBOURS
    /\ ~HasNonMember(att)
    /\ ~BadSignature(att)

\* C15: add_attestation accepts and stores every attestation with
\* NUM_NEIGHBOURS neighbours and scores, a signer and neighbours that are
\* members of the fixed set, in any order, and a signature that verifies.
C15_MembersAccepted ==
    [][(last'.op = "add_attestation" /\ WellFormedMember(last'.arg[1]))
        => /\ last'.status = "Ok"
           /\ PkHash(last'.arg[1].pk) \in DOMAIN attestations'
           /\ attestations'[PkHash(last'.arg[1].pk)] = last'.arg[1]]_vars

\* C16: a submitted attestation whose neighbours or scores are not
\* NUM_NEIGHBOURS many leaves the ledger as it was: it is not cut or filled
\* up to NUM_NEIGHBOURS and stored.
C16_WrongLengthRejected ==
    [][\A c \in Conns :
          (/\ conn_pc[c] = "locked"
           /\ conn_pc'[c] # "locked"
           /\ IsSignature(conn_req[c][1])
           /\ \/ Len(DataOf(conn_req[c][1]).neighbours) # NUM_NEIGHBOURS
              \/ Len(DataOf(conn_req[c][1]).scores) # NUM_NEIGHBOURS)
          => attestations' = attestations]_vars

(***************************************************************************)
(* Claims about the simulated network, checked under SpecNetwork.          *)
(***************************************************************************)
\* The peer of that index as it was before the last tick.
PrevOf(index) ==
    net_prev[CHOOSE k \in 1 .. Len(net_prev) : net_prev[k].index = index]

\* The sum for the peer at place k, over the peers from place q on: a peer
\* that stands before place k was ticked before it and counts with its new
\* score, the others with the score they had before the tick.
RECURSIVE MostRecentSum(_, _)
MostRecentSum(k, q) ==
    IF q > Len(net_peers) THEN 0
    ELSE (IF q = k THEN 0
          ELSE LocalTrust(net_peers[q], net_peers[k].index)
                   * (IF q < k THEN net_peers[q].ti
                      ELSE PrevOf(net_peers[q].index).ti))
         + MostRecentSum(k, q + 1)

\* C17: after a tick, the score of a peer is the trust-weighted sum of its
\* neighbours' most recent scores: the new score of a neighbour ticked before
\* it, the score before the tick of a neighbour ticked after it.
C17_MostRecentScores ==
    net_ticked =>
        \A k \in 1 .. Len(net_peers) : net_peers[k].ti = MostRecentSum(k, 1)

\* C18: is_converged() is true exactly when a tick has run and every peer's
\* score moved by less than DELTA in the last tick; it is false on a new
\* network and false again after a tick in which a score moved by DELTA or
\* more.
C18_ConvergedIffSmallChange ==
    net_converged <=>
        /\ net_ticked
        /\ \A k \in 1 .. Len(net_peers) :
              Abs(net_peers[k].ti - PrevOf(net_peers[k].index).ti) < DELTA

C18_Witness ==
    /\ net_ticked
    /\ net_prev_converged
    /\ ~net_converged
    /\ \E k \in 1 .. Len(net_peers) : net_peers[k].is_converged

\* C19: once the network has converged, get_global_trust_scores returns the
\* same vector whatever orders the ticks took.
C19_OrderIndependent ==
    (net_converged /\ AllConverged(net_ref)) =>
        GetGlobalTrustScores(net_peers) = GetGlobalTrustScores(net_ref)

RECURSIVE DenProduct(_, _)
DenProduct(v, k) ==
    IF k > Len(v) THEN 1 ELSE v[k].den * DenProduct(v, k + 1)

RECURSIVE NumSum(_, _, _)
NumSum(v, k, d) ==
    IF k > Len(v) THEN 0
    ELSE v[k].num * (d \div v[k].den) + NumSum(v, k + 1, d)

\* C20: get_global_trust_scores returns one value per peer, and the values
\* sum to 1.
C20_ScoresSumToOne ==
    net_scores # <<>> =>
        /\ Len(net_scores[1]) = NumPeers
        /\ \A k \in 1 .. Len(net_scores[1]) : net_scores[1][k].den # 0
        /\ NumSum(net_scores[1], 1, DenProduct(net_scores[1], 1))
               = DenProduct(net_scores[1], 1)

(***************************************************************************)
(* Claims about the initial attestations and the ledger, checked under     *)
(* Spec.                                                                   *)
(***************************************************************************)
\* C21: generate_initial_attestations on an empty ledger leaves
\* NUM_NEIGHBOURS attestations, one under the key of each participant of the
\* fixed set, signed by that participant, giving INITIAL_SCORE /
\* NUM_NEIGHBOURS to every participant.
C21_InitialAttestations ==
    [][(last'.op = "generate_initial_attestations" /\ DOMAIN attestations = {})
        => /\ Cardinality(DOMAIN attestations') = NUM_NEIGHBOURS
           /\ \A i \in 1 .. NUM_NEIGHBOURS :
                 /\ PUBLIC_KEYS[i] \in DOMAIN attestations'
                 /\ LET att == attestations'[PUBLIC_KEYS[i]]
                    IN /\ att.pk = FIXED_SET[i]
                       /\ att.sig.signer = FIXED_SET[i]
                       /\ ~BadSignature(att)
                       /\ att.neighbours = FIXED_SET
                       /\ Len(att.scores) = NUM_NEIGHBOURS
                       /\ \A j \in 1 .. NUM_NEIGHBOURS :
                             att.scores[j] * NUM_NEIGHBOURS = INITIAL_SCORE]_vars

C21_Witness ==
    /\ last.op = "generate_initial_attestations"
    /\ Cardinality(DOMAIN attestations) = NUM_NEIGHBOURS
    /\ DOMAIN cached_proofs = {}
    /\ \A h \in DOMAIN attestations : attestations[h].scores[1] = INITIAL_SCORE \div NUM_NEIGHBOURS

\* Every participant has an attestation, and every score in it is
\* INITIAL_SCORE / NUM_NEIGHBOURS.
UniformLedger(atts) ==
    \A i \in 1 .. NUM_NEIGHBOURS :
        /\ PUBLIC_KEYS[i] \in DOMAIN atts
        /\ \A j \in 1 .. NUM_NEIGHBOURS :
              atts[PUBLIC_KEYS[i]].scores[j] * NUM_NEIGHBOURS = INITIAL_SCORE

AllInitialScore(pub_ins) ==
    /\ Len(pub_ins) = NUM_NEIGHBOURS
    /\ \A i \in 1 .. NUM_NEIGHBOURS : pub_ins[i] = INITIAL_SCORE

\* C22: on the ledger of the initial attestations, calculate_proofs(e) returns
\* Ok and get_proof(e) then gives a proof whose public scores are
\* NUM_NEIGHBOURS values, each INITIAL_SCORE.
C22_UniformFixedPoint ==
    [][(last'.op = "calculate_proofs" /\ UniformLedger(attestations))
        => /\ last'.status = "Ok"
           /\ GetProof(cached_proofs', last'.arg[1]).status = "Ok"
           /\ AllInitialScore(GetProof(cached_proofs', last'.arg[1]).val[1].pub_ins)]_vars

C22_Witness ==
    /\ last.op = "get_proof"
    /\ last.status = "Ok"
    /\ last.arg[1] = MaxEpoch
    /\ AllInitialScore(last.val[1].pub_ins)
    /\ UniformLedger(attestations)

\* C29: no operation takes an attestation out of the ledger: a key that has
\* one keeps one, and once every participant has one calculate_proofs finds
\* them all.
C29_AttestationsKept ==
    [][/\ DOMAIN attestations \subseteq DOMAIN attestations'
       /\ (~MissingAttestation(attestations) /\ last'.op = "calculate_proofs")
             => last'.status = "Ok"]_vars

C29_Witness ==
    /\ last.op = "calculate_proofs"
    /\ last.status = "Ok"
    /\ \E h \in DOMAIN attestations : attestations[h].scores = SkewedScores
    /\ \E h \in DOMAIN attestations : attestations[h].scores = InitialScores

(***************************************************************************)
(* Claims about the requests the handler refuses before it asks for the    *)
(* manager, checked under SpecServer.                                      *)
(***************************************************************************)
\* Exactly two pairs, pk=<base58 text> and epoch=<decimal>, in either order.
WellFormedQuery(s) ==
    \E k \in {<<>>} \cup { <<Bs58Encode(PkHash(pk))>> : pk \in Keys },
       e \in { <<ToString(n)>> : n \in Epochs } :
        \/ s = <<"pk", "=">> \o k \o <<"&", "epoch", "=">> \o e
        \/ s = <<"epoch", "=">> \o e \o <<"&", "pk", "=">> \o k

MalformedScoreRequest(req) ==
    /\ IsScore(req)
    /\ \/ req.query = <<>>
       \/ ~WellFormedQuery(req.query[1])

\* C24: a GET /score without a query string, or with one that is not two
\* pairs giving a base58 pk and a decimal epoch, is answered 400 InvalidQuery
\* at once, with the manager as it was.
C24_MalformedQueryRefused ==
    [][\A c \in Conns :
          (conn_req'[c] # conn_req[c] /\ MalformedScoreRequest(conn_req'[c][1]))
             => /\ conn_resp'[c] = <<InvalidQueryResponse>>
                /\ conn_pc'[c] = "idle"
                /\ UNCHANGED <<attestations, cached_proofs, lock>>]_vars

C24_Witness ==
    /\ conn_req[1] # <<>>
    /\ IsScore(conn_req[1][1])
    /\ conn_req[1][1].query # <<>>
    /\ Len(Split(conn_req[1][1].query[1], "&")) = 3
    /\ conn_resp[1] = <<InvalidQueryResponse>>
    /\ DOMAIN attestations # {}
    /\ DOMAIN cached_proofs # {}

UndecodableSubmission(req) ==
    /\ IsSignature(req)
    /\ \E k \in 1 .. Len(DataFields) :
          \A i \in 1 .. Len(req.body) : req.body[i][1] # DataFields[k]

\* C25: a POST /signature whose body is not the text of an attestation is
\* answered 400 InvalidRequest at once, with the ledger as it was.
C25_UndecodableBodyRefused ==
    [][\A c \in Conns :
          (conn_req'[c] # conn_req[c] /\ UndecodableSubmission(conn_req'[c][1]))
             => /\ conn_resp'[c] = <<InvalidRequestResponse>>
                /\ conn_pc'[c] = "idle"
                /\ UNCHANGED <<attestations, cached_proofs, lock>>]_vars

C25_Witness ==
    /\ conn_req[1] # <<>>
    /\ IsSignature(conn_req[1][1])
    /\ conn_req[1][1].body = TruncatedBody
    /\ conn_resp[1] = <<InvalidRequestResponse>>
    /\ conn_pc[1] = "idle"
    /\ DOMAIN attestations # {}

(***************************************************************************)
(* Claims about submissions, results and the wire form, checked under      *)
(* SpecServer.                                                             *)
(***************************************************************************)
\* C26: serving a submission leaves the cached results, and the scores read
\* from them, as they were, and starts no run and changes none.
C26_SubmissionKeepsResults ==
    [][\A c \in Conns :
          (Served(c) /\ IsSignature(conn_req[c][1]))
             => /\ cached_proofs' = cached_proofs
                /\ \A e \in Epochs, h \in DOMAIN attestations :
                      OpJisSum(cached_proofs', h, e) = OpJisSum(cached_proofs, h, e)
                /\ UNCHANGED runVars]_vars

C26_Witness ==
    /\ conn_pc[1] = "served"
    /\ IsSignature(conn_req[1][1])
    /\ conn_resp[1] = <<OkResponse(<<"SignatureAddSuccess">>)>>
    /\ PUBLIC_KEYS[1] \in DOMAIN attestations
    /\ attestations[PUBLIC_KEYS[1]].scores = SkewedScores
    /\ MaxEpoch \in DOMAIN cached_proofs
    /\ AllInitialScore(cached_proofs[MaxEpoch].pub_ins)
    /\ run_pc = "idle"

\* The place of a participant's key hash in PUBLIC_KEYS.
IndexOf(pk_hash) == CHOOSE i \in 1 .. NUM_NEIGHBOURS : PUBLIC_KEYS[i] = pk_hash

C23_ResultIsOfTheRun ==
    cached_proofs' # cached_proofs =>
        cached_proofs'[run_epoch].pub_ins = Native(InitScore, GatherOps(run_ledger))

C23_ScoreServed ==
    \A c \in Conns :
        (/\ Served(c)
         /\ IsScore(conn_req[c][1])
         /\ QueryOf(conn_req[c][1]).pk \in DOMAIN attestations
         /\ QueryOf(conn_req[c][1]).epoch \in DOMAIN cached_proofs)
           => LET query == QueryOf(conn_req[c][1])
              IN /\ conn_resp'[c] =
                       <<OkResponse(<<"Score",
                            cached_proofs[query.epoch].pub_ins[IndexOf(query.pk)]>>)>>
                 /\ conn_resp'[c] =
                       <<OkResponse(<<"Score",
                            OpJisSum(cached_proofs, query.pk, query.epoch)>>)>>

\* C23: once the run of an epoch has completed, GET /score for a participant
\* with an attestation and that epoch is answered with success, and the body
\* is the participant's score in the result of the run, which is what
\* get_op_jis gives, summed.
C23_ScoreOfCompletedRun ==
    [][C23_ResultIsOfTheRun /\ C23_ScoreServed]_vars

C23_Witness ==
    /\ conn_pc[1] = "served"
    /\ IsScore(conn_req[1][1])
    /\ QueryOf(conn_req[1][1]).pk = PUBLIC_KEYS[1]
    /\ QueryOf(conn_req[1][1]).epoch \in DOMAIN cached_proofs
    /\ attestations[PUBLIC_KEYS[1]].scores = SkewedScores
    /\ run_result = "Ok"
    /\ run_pc = "idle"
    /\ ~AllInitialScore(cached_proofs[QueryOf(conn_req[1][1]).epoch].pub_ins)
    /\ conn_resp[1] = <<OkResponse(<<"Score",
           cached_proofs[QueryOf(conn_req[1][1]).epoch].pub_ins[1]>>)>>

\* C27: the wire form loses nothing, whatever the lengths of the lists: the
\* attestation built from submitted data gives that data back, and is itself
\* given back by its own wire form.
C27_WireRoundTrip ==
    [][\A c \in Conns :
          (Served(c) /\ IsSignature(conn_req[c][1]))
             => LET data == DataOf(conn_req[c][1])
                    att == AttestationFromData(data)
                IN /\ DataFromAttestation(att) = data
                   /\ AttestationFromData(DataFromAttestation(att)) = att]_vars

(***************************************************************************)
(* Claims about the places of the peers, checked under SpecNetwork.        *)
(***************************************************************************)
\* C28: a tick does not move the peers: the peer at place i is the peer with
\* index i, as Network::new put it.
C28_PeersKeepPlaces ==
    \A k \in 1 .. Len(net_peers) : net_peers[k].index = k - 1

====
